---- MODULE Spec2Model ----
(***************************************************************************)
(* On-demand GPU instance control: the lifecycle controller in its two     *)
(* variants (job-dispatcher/instance_manager.py for a GCE VM,              *)
(* job-dispatcher/runpod_manager.py for a Runpod pod) and the job          *)
(* dispatcher (job-dispatcher/main.py).                                    *)
(*                                                                         *)
(* Every HTTP handler is a sequence of steps, one per provider call or     *)
(* access to a process-wide variable; FastAPI runs plain "def" handlers on *)
(* a thread pool, so the steps of different requests interleave.           *)
(***************************************************************************)
EXTENDS Integers, Sequences, FiniteSets, TLC

\* ------------------------------------------------------------------ bounds
\* Request slots of the controller service that can be in flight at once.
NumReqs == 2
\* Pod identifiers the provider can hand out (the pod variant).
MaxPods == 2
\* Successful metadata writes the provider accepts before the model stops.
MaxWrites == 2
\* Ticks of the wall clock in the controller specification.
MaxTime == 1

\* ------------------------------------------------------- program constants
\* INACTIVITY_TIMEOUT, in minutes, of each variant.
GCE_INACTIVITY_TIMEOUT == 1
POD_INACTIVITY_TIMEOUT == 30

Reqs == 1..NumReqs
Ids == 1..MaxPods
\* GCE_INSTANCE: the one named VM of the GCE variant.
GCE_INSTANCE == 1
\* RUNPOD_POD_ID unset (None).
NoPod == 0
Absent == "ABSENT"

\* Raw status vocabulary of a GCE instance.
GceRaw ==
  {"PROVISIONING", "STAGING", "RUNNING", "STOPPING", "SUSPENDING",
   "SUSPENDED", "REPAIRING", "TERMINATED"}
\* Raw desiredStatus vocabulary of a pod: the words map_runpod_status knows
\* and some it does not.
PodRaw ==
  {"RUNNING", "IDLE", "STOPPED", "STOPPING", "STARTING", "PENDING", "FAILED",
   "EXITED", "CREATED", "PAUSED", "TERMINATED", "DEAD"}

\* The normalized Status enum of the specification.
Normalized ==
  {"RUNNING", "PROVISIONING", "STOPPING", "TERMINATED", "NOT_FOUND",
   "NOT_CONFIGURED", "UNKNOWN", "ERROR"}

\* What a provider call can answer besides its result: capacity exhausted,
\* quota exceeded, any other failure.
CallFaults == {"ok", "capacity", "quota", "error"}
ReadFaults == {"ok", "error"}

VARIABLES
  variant,        \* "gce" | "pod" | "dispatch": the service running
  template,       \* RUNPOD_TEMPLATE_ID is set
  raw,            \* provider: raw status of each instance/pod, or Absent
  POD_ID,         \* runpod_manager.POD_ID (NoPod = None)
  fingerprint,    \* provider: metadata fingerprint of the GCE instance
  metadata,       \* provider: metadata items of the GCE instance
  now,            \* wall clock
  last_activity,  \* the process-wide ActivityClock
  podsMade,       \* provider: pod identifiers handed out so far
  req,            \* controller requests in flight, by slot
  startsSinceStopped, \* provider start calls from requests that observed the
                      \* instance stopped, since it last became stopped
  touched,        \* the clock reading of the latest /start or /keep-alive
                  \* (-1: none yet), kept where the clock is under study
  mapPc,          \* status mapping on its own: "input", "extracted", "mapped"
  mapPod,         \* the pod record the provider answered with
  mapArg,         \* the raw status string taken from it
  mapOut,         \* the normalized status
  jobBlobs,       \* storage: the objects in JOB_BUCKET, <<job id, document>>
  outBlobs,       \* storage: the objects in OUT_BUCKET, <<job id, name>>
  jobsMade        \* job identifiers handed out so far

ctlVars ==
  <<variant, template, raw, POD_ID, fingerprint, metadata, now, last_activity,
    podsMade, req, startsSinceStopped>>

mapVars == <<mapPc, mapPod, mapArg, mapOut>>

dispVars == <<jobBlobs, outBlobs, jobsMade>>

vars == <<ctlVars, touched, mapVars, dispVars>>

\* ------------------------------------------------------------ requests
\* A dict with no key, and the two dict objects a /render request works with:
\* the one the caller supplied and the one dict.copy() makes.
EmptyDict == [k \in {} |-> ""]
ObjIds == {"arg", "new"}

Idle ==
  [op |-> "none", pc |-> "idle", t |-> 0, obs |-> "", fp |-> 0, ret |-> NoPod,
   ans |-> "", res |-> 0, rstatus |-> "", inactive |-> FALSE,
   job_id |-> 0, pushed |-> FALSE, files |-> {},
   heap |-> [o \in ObjIds |-> EmptyDict], workflow |-> "arg", sent |-> EmptyDict,
   nMeta |-> 0, nStart |-> 0, nStop |-> 0, nTerm |-> 0, nCreate |-> 0]

Ops == {"start", "stop", "keepalive", "status", "activity", "terminate"}

\* Handlers of which /start goes to the provider without touching the clock.
FirstPc_StartSkipsTouch(op) ==
  CASE op = "start" -> IF variant = "pod" THEN "resolve" ELSE "get"
    [] op = "keepalive" -> "touch_r"
    [] op = "stop" -> "get"
    [] op = "status" -> "get"
    [] op = "activity" -> "compute"
    [] op = "terminate" -> "term"

\* The first step of each handler.
FirstPc(op) ==
  CASE op = "start" -> "touch_r"
    [] op = "keepalive" -> "touch_r"
    [] op = "stop" -> "get"
    [] op = "status" -> "get"
    [] op = "activity" -> "compute"
    [] op = "terminate" -> "term"

Finish(r, code, status) ==
  [req[r] EXCEPT !.pc = "done", !.res = code, !.rstatus = status]

\* A client sends a request.  Slots are interchangeable: the lowest free one
\* is taken.  /terminate exists in the pod variant only.
Begin(r, op) ==
  /\ variant \in {"gce", "pod"}
  /\ req[r].pc = "idle"
  /\ \A q \in Reqs : q < r => req[q].pc # "idle"
  /\ op = "terminate" => variant = "pod"
  /\ req' = [req EXCEPT ![r] = [Idle EXCEPT !.op = op, !.pc = FirstPc(op)]]
  /\ UNCHANGED <<variant, template, raw, POD_ID, fingerprint, metadata, now,
                 last_activity, podsMade, startsSinceStopped>>

\* The response has been delivered; the slot is free again.
Return(r) ==
  /\ req[r].pc = "done"
  /\ req' = [req EXCEPT ![r] = Idle]
  /\ UNCHANGED <<variant, template, raw, POD_ID, fingerprint, metadata, now,
                 last_activity, podsMade, startsSinceStopped>>

\* ------------------------------------------------------------ the clock
Tick ==
  /\ variant \in {"gce", "pod"}
  /\ now < MaxTime
  /\ now' = now + 1
  /\ UNCHANGED <<variant, template, raw, POD_ID, fingerprint, metadata,
                 last_activity, podsMade, req, startsSinceStopped>>

\* last_activity = datetime.now(): the clock is read ...
TouchRead(r) ==
  /\ req[r].pc = "touch_r"
  /\ req' = [req EXCEPT ![r] = [@ EXCEPT !.pc = "touch_w", !.t = now]]
  /\ UNCHANGED <<variant, template, raw, POD_ID, fingerprint, metadata, now,
                 last_activity, podsMade, startsSinceStopped>>

\* ... and the value read is stored into the global.
TouchWrite(r) ==
  /\ req[r].pc = "touch_w"
  /\ last_activity' = req[r].t
  /\ req' = [req EXCEPT ![r] =
       IF req[r].op = "keepalive" /\ variant = "pod"
       THEN [Finish(r, 200, "None") EXCEPT !.t = 0]
       ELSE [@ EXCEPT !.t = 0,
                      !.pc = IF req[r].op = "start" /\ variant = "pod"
                             THEN "resolve" ELSE "get"]]
  /\ UNCHANGED <<variant, template, raw, POD_ID, fingerprint, metadata, now,
                 podsMade, startsSinceStopped>>

INACTIVITY_TIMEOUT ==
  IF variant = "gce" THEN GCE_INACTIVITY_TIMEOUT ELSE POD_INACTIVITY_TIMEOUT

\* get_activity() with the comparison time_since_activity >= INACTIVITY_TIMEOUT.
get_activity_AtTimeout(r) ==
  /\ req[r].op = "activity" /\ req[r].pc = "compute"
  /\ LET time_since_activity == now - last_activity
         is_inactive == time_since_activity >= INACTIVITY_TIMEOUT
     IN req' = [req EXCEPT ![r] =
          [@ EXCEPT !.pc = "done", !.res = 200, !.inactive = is_inactive,
                    !.t = time_since_activity]]
  /\ UNCHANGED <<variant, template, raw, POD_ID, fingerprint, metadata, now,
                 last_activity, podsMade, startsSinceStopped>>

\* GET /activity
get_activity(r) ==
  /\ req[r].op = "activity" /\ req[r].pc = "compute"
  /\ LET time_since_activity == now - last_activity
         is_inactive == time_since_activity > INACTIVITY_TIMEOUT
     IN req' = [req EXCEPT ![r] =
          [@ EXCEPT !.pc = "done", !.res = 200, !.inactive = is_inactive,
                    !.t = time_since_activity]]
  /\ UNCHANGED <<variant, template, raw, POD_ID, fingerprint, metadata, now,
                 last_activity, podsMade, startsSinceStopped>>

\* ------------------------------------------------- the provider's own moves
GceProviderNext(s) ==
  CASE s = "PROVISIONING" -> {"STAGING"}
    [] s = "STAGING" -> {"RUNNING"}
    [] s = "RUNNING" -> {"STOPPING", "REPAIRING"}
    [] s = "REPAIRING" -> {"RUNNING"}
    [] s = "STOPPING" -> {"TERMINATED"}
    [] OTHER -> {}

PodProviderNext(s) ==
  CASE s = "CREATED" -> {"RUNNING"}
    [] s = "PENDING" -> {"STARTING"}
    [] s = "STARTING" -> {"RUNNING"}
    [] s = "RUNNING" -> {"STOPPING"}
    [] s = "STOPPING" -> {"EXITED"}
    [] OTHER -> {}

Stopped(s) == s \in {"TERMINATED", "STOPPED", "EXITED", "FAILED"}

\* The instance moves on by itself: it boots, the worker's own idle shutdown
\* stops it, the provider repairs or suspends it.
ProviderStep(i) ==
  /\ variant \in {"gce", "pod", "dispatch"}
  /\ raw[i] # Absent
  /\ \E s \in (IF variant = "pod" THEN PodProviderNext(raw[i])
               ELSE GceProviderNext(raw[i])) :
       /\ raw' = [raw EXCEPT ![i] = s]
       /\ startsSinceStopped' =
            IF Stopped(s) /\ (variant # "pod" \/ i = POD_ID)
            THEN 0 ELSE startsSinceStopped
  /\ UNCHANGED <<variant, template, POD_ID, fingerprint, metadata, now,
                 last_activity, podsMade, req>>

\* ===================================================== the GCE variant
\* job-dispatcher/instance_manager.py

\* get_instance_status() without its 404 arm: the HttpError is raised.
get_instance_status_Raise404(f) ==
  IF f = "error" \/ raw[GCE_INSTANCE] = Absent THEN [raised |-> TRUE, status |-> ""]
  ELSE [raised |-> FALSE, status |-> raw[GCE_INSTANCE]]

\* get_instance_status(): the raw status of the instance record, NOT_FOUND for
\* a 404 answer; any other HttpError is raised.
get_instance_status(f) ==
  IF f = "error" THEN [raised |-> TRUE, status |-> ""]
  ELSE IF raw[GCE_INSTANCE] = Absent THEN [raised |-> FALSE, status |-> "NOT_FOUND"]
  ELSE [raised |-> FALSE, status |-> raw[GCE_INSTANCE]]

\* start_instance() returning at once only when the instance is running.
StartEarlyReturn_RunningOnly(status) == status = "RUNNING"

\* start_instance() returns at once on these observed statuses.
StartEarlyReturn(status) ==
  status = "RUNNING" \/ status \in {"PROVISIONING", "STAGING"}

\* stop_instance() returning at once only when the instance is stopped.
StopEarlyReturn_TerminatedOnly(status) == status \in {"TERMINATED"}

\* stop_instance() returns at once on these observed statuses.
StopEarlyReturn(status) == status \in {"TERMINATED", "STOPPING"}

\* The except clauses of start_instance(): an HttpError is 404 for not found,
\* 503 when its text names an exhausted pool or quota, else 500; any other
\* exception is 500.
gce_start_except(cls, kind) ==
  IF cls = "HttpError"
  THEN IF kind = "notfound" THEN 404
       ELSE IF kind \in {"capacity", "quota"} THEN 503
       ELSE 500
  ELSE 500

\* The except clauses of stop_instance().
gce_stop_except(cls, kind) ==
  IF cls = "HttpError" /\ kind = "notfound" THEN 404 ELSE 500

\* The metadata items start_instance() pushes, ALLOWED_IP being configured.
StartItems == {"startup-script-url", "allowed_ip", "auth_user", "auth_pass"}

\* GET /status
gce_get_status(r) ==
  /\ variant = "gce"
  /\ req[r].op = "status" /\ req[r].pc = "get"
  /\ \E f \in ReadFaults :
       LET s == get_instance_status(f)
       IN req' = [req EXCEPT ![r] =
            IF s.raised THEN [Finish(r, 500, "") EXCEPT !.ans = f]
            ELSE [Finish(r, 200, s.status) EXCEPT !.obs = s.status, !.ans = f]]
  /\ UNCHANGED <<variant, template, raw, POD_ID, fingerprint, metadata, now,
                 last_activity, podsMade, startsSinceStopped>>

\* POST /start: the status check.
gce_start_check(r) ==
  /\ variant = "gce"
  /\ req[r].op = "start" /\ req[r].pc = "get"
  /\ \E f \in ReadFaults :
       LET s == get_instance_status(f)
       IN req' = [req EXCEPT ![r] =
            IF s.raised THEN Finish(r, gce_start_except("HttpError", "other"), "")
            ELSE IF StartEarlyReturn(s.status)
            THEN [Finish(r, 200, s.status) EXCEPT !.obs = s.status]
            ELSE [@ EXCEPT !.pc = "meta_get", !.obs = s.status]]
  /\ UNCHANGED <<variant, template, raw, POD_ID, fingerprint, metadata, now,
                 last_activity, podsMade, startsSinceStopped>>

\* set_instance_metadata(): read the instance record for its fingerprint.
gce_meta_get(r) ==
  /\ variant = "gce"
  /\ req[r].op = "start" /\ req[r].pc = "meta_get"
  /\ \E f \in ReadFaults :
       req' = [req EXCEPT ![r] =
         IF f = "error" THEN Finish(r, gce_start_except("HttpError", "other"), "")
         ELSE IF raw[GCE_INSTANCE] = Absent
         THEN Finish(r, gce_start_except("HttpError", "notfound"), "")
         ELSE [@ EXCEPT !.pc = "meta_set", !.fp = fingerprint]]
  /\ UNCHANGED <<variant, template, raw, POD_ID, fingerprint, metadata, now,
                 last_activity, podsMade, startsSinceStopped>>

\* set_instance_metadata(): setMetadata with the fingerprint read.  The
\* provider refuses a stale fingerprint (HTTP 412).
gce_meta_set(r) ==
  /\ variant = "gce"
  /\ req[r].op = "start" /\ req[r].pc = "meta_set"
  /\ \E f \in CallFaults :
       IF f # "ok" \/ raw[GCE_INSTANCE] = Absent \/ req[r].fp # fingerprint
       THEN /\ req' = [req EXCEPT ![r] =
                 [Finish(r, gce_start_except("HttpError",
                            IF f # "ok" THEN f
                            ELSE IF raw[GCE_INSTANCE] = Absent THEN "notfound"
                            ELSE "conflict"), "")
                  EXCEPT !.nMeta = @ + 1, !.fp = 0,
                         !.ans = IF f # "ok" THEN f ELSE "refused"]]
            /\ UNCHANGED <<fingerprint, metadata>>
       ELSE /\ fingerprint < MaxWrites
            /\ fingerprint' = fingerprint + 1
            /\ metadata' = StartItems
            /\ req' = [req EXCEPT ![r] =
                 [@ EXCEPT !.pc = "meta_wait", !.nMeta = @ + 1, !.fp = 0,
                           !.ans = "ok"]]
  /\ UNCHANGED <<variant, template, raw, POD_ID, now, last_activity, podsMade,
                 startsSinceStopped>>

\* wait_for_operation() on the setMetadata operation: an embedded error is a
\* RuntimeError.
gce_meta_wait(r) ==
  /\ variant = "gce"
  /\ req[r].op = "start" /\ req[r].pc = "meta_wait"
  /\ \E f \in CallFaults :
       req' = [req EXCEPT ![r] =
         IF f # "ok"
         THEN [Finish(r, gce_start_except("RuntimeError", f), "") EXCEPT !.ans = f]
         ELSE [@ EXCEPT !.pc = "start"]]
  /\ UNCHANGED <<variant, template, raw, POD_ID, fingerprint, metadata, now,
                 last_activity, podsMade, startsSinceStopped>>

\* compute.instances().start(): the provider start call.
gce_start_call(r) ==
  /\ variant = "gce"
  /\ req[r].op = "start" /\ req[r].pc = "start"
  /\ \E f \in CallFaults :
       IF f # "ok" \/ raw[GCE_INSTANCE] = Absent
       THEN /\ req' = [req EXCEPT ![r] =
                 [Finish(r, gce_start_except("HttpError",
                            IF f # "ok" THEN f ELSE "notfound"), "")
                  EXCEPT !.nStart = @ + 1, !.ans = IF f # "ok" THEN f ELSE "notfound"]]
            /\ UNCHANGED <<raw, startsSinceStopped>>
       ELSE /\ raw' = [raw EXCEPT ![GCE_INSTANCE] =
                 IF @ = "TERMINATED" THEN "PROVISIONING" ELSE @]
            /\ startsSinceStopped' =
                 IF req[r].obs = "TERMINATED" THEN startsSinceStopped + 1
                 ELSE startsSinceStopped
            /\ req' = [req EXCEPT ![r] =
                 [@ EXCEPT !.pc = "start_wait", !.nStart = @ + 1, !.ans = "ok"]]
  /\ UNCHANGED <<variant, template, POD_ID, fingerprint, metadata, now,
                 last_activity, podsMade>>

\* wait_for_operation() on the start operation.  A start that the provider
\* could not carry out leaves the instance stopped.
gce_start_wait(r) ==
  /\ variant = "gce"
  /\ req[r].op = "start" /\ req[r].pc = "start_wait"
  /\ \E f \in CallFaults :
       IF f # "ok"
       THEN /\ req' = [req EXCEPT ![r] =
                 [Finish(r, gce_start_except("RuntimeError", f), "") EXCEPT !.ans = f]]
            /\ raw' = [raw EXCEPT ![GCE_INSTANCE] =
                 IF @ = "PROVISIONING" THEN "TERMINATED" ELSE @]
            /\ startsSinceStopped' =
                 IF raw[GCE_INSTANCE] = "PROVISIONING" THEN 0 ELSE startsSinceStopped
       ELSE /\ req' = [req EXCEPT ![r] = Finish(r, 200, "PROVISIONING")]
            /\ UNCHANGED <<raw, startsSinceStopped>>
  /\ UNCHANGED <<variant, template, POD_ID, fingerprint, metadata, now,
                 last_activity, podsMade>>

\* POST /stop: the status check.
gce_stop_check(r) ==
  /\ variant = "gce"
  /\ req[r].op = "stop" /\ req[r].pc = "get"
  /\ \E f \in ReadFaults :
       LET s == get_instance_status(f)
       IN req' = [req EXCEPT ![r] =
            IF s.raised THEN Finish(r, gce_stop_except("HttpError", "other"), "")
            ELSE IF StopEarlyReturn(s.status)
            THEN [Finish(r, 200, s.status) EXCEPT !.obs = s.status]
            ELSE [@ EXCEPT !.pc = "stop", !.obs = s.status]]
  /\ UNCHANGED <<variant, template, raw, POD_ID, fingerprint, metadata, now,
                 last_activity, podsMade, startsSinceStopped>>

\* compute.instances().stop(): the provider stop call.
gce_stop_call(r) ==
  /\ variant = "gce"
  /\ req[r].op = "stop" /\ req[r].pc = "stop"
  /\ \E f \in ReadFaults :
       IF f # "ok" \/ raw[GCE_INSTANCE] = Absent
       THEN /\ req' = [req EXCEPT ![r] =
                 [Finish(r, gce_stop_except("HttpError",
                            IF f # "ok" THEN "other" ELSE "notfound"), "")
                  EXCEPT !.nStop = @ + 1, !.ans = IF f # "ok" THEN f ELSE "notfound"]]
            /\ UNCHANGED raw
       ELSE /\ raw' = [raw EXCEPT ![GCE_INSTANCE] =
                 IF @ \in {"PROVISIONING", "STAGING", "RUNNING", "REPAIRING"}
                 THEN "STOPPING" ELSE @]
            /\ req' = [req EXCEPT ![r] =
                 [@ EXCEPT !.pc = "stop_wait", !.nStop = @ + 1, !.ans = "ok"]]
  /\ UNCHANGED <<variant, template, POD_ID, fingerprint, metadata, now,
                 last_activity, podsMade, startsSinceStopped>>

\* wait_for_operation() on the stop operation.
gce_stop_wait(r) ==
  /\ variant = "gce"
  /\ req[r].op = "stop" /\ req[r].pc = "stop_wait"
  /\ \E f \in ReadFaults :
       req' = [req EXCEPT ![r] =
         IF f # "ok"
         THEN [Finish(r, gce_stop_except("RuntimeError", f), "") EXCEPT !.ans = f]
         ELSE Finish(r, 200, "STOPPING")]
  /\ UNCHANGED <<variant, template, raw, POD_ID, fingerprint, metadata, now,
                 last_activity, podsMade, startsSinceStopped>>

\* keep_alive() letting the exception of its look at the instance through.
keep_alive_response_Propagate(raised) == IF raised THEN 500 ELSE 200

\* keep_alive(): the try/except around the look at the instance logs a
\* failure and goes on to the success response.
keep_alive_response(raised) == 200

\* POST /keep-alive, after the clock is reset: the instance is looked at and
\* whatever the look gives, an exception too, is dropped.
gce_keep_alive(r) ==
  /\ variant = "gce"
  /\ req[r].op = "keepalive" /\ req[r].pc = "get"
  /\ \E f \in ReadFaults :
       LET s == get_instance_status(f)
       IN req' = [req EXCEPT ![r] =
            [Finish(r, keep_alive_response(s.raised), "None")
             EXCEPT !.obs = s.status, !.ans = f]]
  /\ UNCHANGED <<variant, template, raw, POD_ID, fingerprint, metadata, now,
                 last_activity, podsMade, startsSinceStopped>>

\* ===================================================== the pod variant
\* job-dispatcher/runpod_manager.py

\* A raw status string is a word in some letter case; str.upper() changes the
\* case and keeps the word.
Casings == {"upper", "lower", "mixed"}
upper(s) == [s EXCEPT !.c = "upper"]

\* The keys of status_map are upper-case words.
status_map ==
  [w \in {"RUNNING", "IDLE", "STOPPED", "STOPPING", "STARTING", "PENDING",
          "FAILED", "EXITED"} |->
     CASE w \in {"RUNNING", "IDLE"} -> "RUNNING"
       [] w \in {"STOPPED", "FAILED", "EXITED"} -> "TERMINATED"
       [] w = "STOPPING" -> "STOPPING"
       [] w \in {"STARTING", "PENDING"} -> "PROVISIONING"]

\* status_map[key]: a KeyError where dict.get gives the default.
dict_get_KeyError(d, s, default) ==
  IF s.c = "upper" /\ s.w \in DOMAIN d THEN d[s.w] ELSE "RAISED"

\* dict.get(key, default)
dict_get(d, s, default) ==
  IF s.c = "upper" /\ s.w \in DOMAIN d THEN d[s.w] ELSE default

\* map_runpod_status(runpod_status)
map_runpod_status(runpod_status) ==
  dict_get(status_map, upper(runpod_status), "UNKNOWN")

\* pod.get("desiredStatus", "UNKNOWN") on the provider's pod record.
desiredStatus(pod) ==
  IF pod.present THEN [w |-> pod.w, c |-> pod.c]
  ELSE [w |-> "UNKNOWN", c |-> "upper"]

\* runpod.get_pod(i): the provider reports upper-case words.
get_pod(i) == [present |-> TRUE, w |-> raw[i], c |-> "upper"]

\* get_pod_status(pod_id): never raises; NOT_CONFIGURED without an identifier,
\* NOT_FOUND when the provider has no such pod, ERROR on any exception.
get_pod_status(pod_id, f) ==
  LET id == IF pod_id # NoPod THEN pod_id ELSE POD_ID
  IN IF id = NoPod THEN "NOT_CONFIGURED"
     ELSE IF f = "error" THEN "ERROR"
     ELSE IF raw[id] = Absent THEN "NOT_FOUND"
     ELSE LET status == map_runpod_status(desiredStatus(get_pod(id)))
          IN IF status = "RAISED" THEN "ERROR" ELSE status

\* The except clause of the pod start_instance(): 503 when the message names
\* capacity or quota, else 500.
pod_start_except(kind) ==
  IF kind = "capacity" THEN 503
  ELSE IF kind = "quota" THEN 503
  ELSE 500

\* GET /status
pod_get_status(r) ==
  /\ variant = "pod"
  /\ req[r].op = "status" /\ req[r].pc = "get"
  /\ \E f \in ReadFaults :
       LET status == get_pod_status(NoPod, f)
       IN req' = [req EXCEPT ![r] =
            [Finish(r, 200, status) EXCEPT !.obs = status, !.ans = f]]
  /\ UNCHANGED <<variant, template, raw, POD_ID, fingerprint, metadata, now,
                 last_activity, podsMade, startsSinceStopped>>

\* POST /start: "if not POD_ID".
pod_start_resolve(r) ==
  /\ variant = "pod"
  /\ req[r].op = "start" /\ req[r].pc = "resolve"
  /\ req' = [req EXCEPT ![r] =
       [@ EXCEPT !.pc = IF POD_ID # NoPod THEN "get" ELSE "cog"]]
  /\ UNCHANGED <<variant, template, raw, POD_ID, fingerprint, metadata, now,
                 last_activity, podsMade, startsSinceStopped>>

\* create_or_get_pod() going on to create a pod whether or not a template is
\* configured.
create_or_get_pod_check_AlwaysCreate(r) ==
  /\ variant = "pod"
  /\ req[r].op = "start" /\ req[r].pc = "cog"
  /\ \E f \in ReadFaults :
       req' = [req EXCEPT ![r] =
         IF POD_ID # NoPod /\ f = "error"
         THEN Finish(r, pod_start_except("other"), "")
         ELSE IF POD_ID # NoPod /\ raw[POD_ID] # Absent
         THEN [@ EXCEPT !.pc = "assign", !.ret = POD_ID]
         ELSE [@ EXCEPT !.pc = "create"]]
  /\ UNCHANGED <<variant, template, raw, POD_ID, fingerprint, metadata, now,
                 last_activity, podsMade, startsSinceStopped>>

\* create_or_get_pod(): the stored pod if the provider still has it, else on
\* to creating one (a template is configured) or to looking one up.
create_or_get_pod_check(r) ==
  /\ variant = "pod"
  /\ req[r].op = "start" /\ req[r].pc = "cog"
  /\ \E f \in ReadFaults :
       req' = [req EXCEPT ![r] =
         IF POD_ID # NoPod /\ f = "error"
         THEN Finish(r, pod_start_except("other"), "")
         ELSE IF POD_ID # NoPod /\ raw[POD_ID] # Absent
         THEN [@ EXCEPT !.pc = "assign", !.ret = POD_ID]
         ELSE [@ EXCEPT !.pc = IF template THEN "create" ELSE "find"]]
  /\ UNCHANGED <<variant, template, raw, POD_ID, fingerprint, metadata, now,
                 last_activity, podsMade, startsSinceStopped>>

\* create_or_get_pod(): runpod.create_pod(), and the new identifier stored.
create_or_get_pod_create(r) ==
  /\ variant = "pod"
  /\ req[r].op = "start" /\ req[r].pc = "create"
  /\ \E f \in CallFaults :
       IF f # "ok"
       THEN /\ req' = [req EXCEPT ![r] =
                 [Finish(r, pod_start_except(f), "") EXCEPT !.ans = f]]
            /\ UNCHANGED <<raw, POD_ID, podsMade>>
       ELSE /\ podsMade < MaxPods
            /\ \E s \in {"CREATED", "RUNNING"} :
                 raw' = [raw EXCEPT ![podsMade + 1] = s]
            /\ podsMade' = podsMade + 1
            /\ POD_ID' = podsMade + 1
            /\ req' = [req EXCEPT ![r] =
                 [@ EXCEPT !.pc = "assign", !.ret = podsMade + 1,
                           !.nCreate = @ + 1, !.ans = "ok"]]
  /\ UNCHANGED <<variant, template, fingerprint, metadata, now, last_activity,
                 startsSinceStopped>>

\* create_or_get_pod(): runpod.get_pods() searched for a pod named comfyui;
\* ValueError when there is none.
create_or_get_pod_find(r) ==
  /\ variant = "pod"
  /\ req[r].op = "start" /\ req[r].pc = "find"
  /\ \E f \in ReadFaults :
       IF f = "error" \/ \A i \in Ids : raw[i] = Absent
       THEN /\ req' = [req EXCEPT ![r] = Finish(r, pod_start_except("other"), "")]
            /\ UNCHANGED POD_ID
       ELSE \E i \in Ids :
              /\ raw[i] # Absent
              /\ POD_ID' = i
              /\ req' = [req EXCEPT ![r] = [@ EXCEPT !.pc = "assign", !.ret = i]]
  /\ UNCHANGED <<variant, template, raw, fingerprint, metadata, now,
                 last_activity, podsMade, startsSinceStopped>>

\* POD_ID = create_or_get_pod(): the returned identifier stored.
pod_start_assign(r) ==
  /\ variant = "pod"
  /\ req[r].op = "start" /\ req[r].pc = "assign"
  /\ POD_ID' = req[r].ret
  /\ req' = [req EXCEPT ![r] = [@ EXCEPT !.pc = "get"]]
  /\ UNCHANGED <<variant, template, raw, fingerprint, metadata, now,
                 last_activity, podsMade, startsSinceStopped>>

\* POST /start: the status check.
pod_start_check(r) ==
  /\ variant = "pod"
  /\ req[r].op = "start" /\ req[r].pc = "get"
  /\ \E f \in ReadFaults :
       LET status == get_pod_status(POD_ID, f)
       IN req' = [req EXCEPT ![r] =
            IF StartEarlyReturn(status)
            THEN [Finish(r, 200, status) EXCEPT !.obs = status]
            ELSE [@ EXCEPT !.pc = "resume", !.obs = status]]
  /\ UNCHANGED <<variant, template, raw, POD_ID, fingerprint, metadata, now,
                 last_activity, podsMade, startsSinceStopped>>

\* runpod.resume_pod(POD_ID): the provider start call.
pod_resume(r) ==
  /\ variant = "pod"
  /\ req[r].op = "start" /\ req[r].pc = "resume"
  /\ \E f \in CallFaults :
       LET gone == POD_ID = NoPod \/ raw[POD_ID] = Absent
       IN IF f # "ok" \/ gone
          THEN /\ req' = [req EXCEPT ![r] =
                    [Finish(r, pod_start_except(IF f # "ok" THEN f ELSE "notfound"), "")
                     EXCEPT !.nStart = @ + 1,
                            !.ans = IF f # "ok" THEN f ELSE "notfound"]]
               /\ UNCHANGED <<raw, startsSinceStopped>>
          ELSE /\ raw' = [raw EXCEPT ![POD_ID] =
                    IF Stopped(@) THEN "STARTING" ELSE @]
               /\ startsSinceStopped' =
                    IF req[r].obs = "TERMINATED" THEN startsSinceStopped + 1
                    ELSE startsSinceStopped
               /\ req' = [req EXCEPT ![r] =
                    [Finish(r, 200, "PROVISIONING")
                     EXCEPT !.nStart = @ + 1, !.ans = "ok"]]
  /\ UNCHANGED <<variant, template, POD_ID, fingerprint, metadata, now,
                 last_activity, podsMade>>

\* POST /stop: "if not POD_ID", then the status check.
pod_stop_check(r) ==
  /\ variant = "pod"
  /\ req[r].op = "stop" /\ req[r].pc = "get"
  /\ \E f \in ReadFaults :
       LET status == get_pod_status(POD_ID, f)
       IN req' = [req EXCEPT ![r] =
            IF POD_ID = NoPod THEN Finish(r, 200, "TERMINATED")
            ELSE IF StopEarlyReturn(status)
            THEN [Finish(r, 200, status) EXCEPT !.obs = status]
            ELSE [@ EXCEPT !.pc = "stop", !.obs = status]]
  /\ UNCHANGED <<variant, template, raw, POD_ID, fingerprint, metadata, now,
                 last_activity, podsMade, startsSinceStopped>>

\* runpod.stop_pod(POD_ID): the provider stop call.
pod_stop_call(r) ==
  /\ variant = "pod"
  /\ req[r].op = "stop" /\ req[r].pc = "stop"
  /\ \E f \in ReadFaults :
       LET gone == POD_ID = NoPod \/ raw[POD_ID] = Absent
       IN IF f # "ok" \/ gone
          THEN /\ req' = [req EXCEPT ![r] =
                    [Finish(r, 500, "")
                     EXCEPT !.nStop = @ + 1,
                            !.ans = IF f # "ok" THEN f ELSE "notfound"]]
               /\ UNCHANGED raw
          ELSE /\ raw' = [raw EXCEPT ![POD_ID] =
                    IF @ \in {"CREATED", "STARTING", "PENDING", "RUNNING", "IDLE"}
                    THEN "STOPPING" ELSE @]
               /\ req' = [req EXCEPT ![r] =
                    [Finish(r, 200, "STOPPING") EXCEPT !.nStop = @ + 1, !.ans = "ok"]]
  /\ UNCHANGED <<variant, template, POD_ID, fingerprint, metadata, now,
                 last_activity, podsMade, startsSinceStopped>>

\* POST /terminate: "if not POD_ID" answers success without a provider call.
terminate_instance_check(r) ==
  /\ variant = "pod"
  /\ req[r].op = "terminate" /\ req[r].pc = "term"
  /\ req' = [req EXCEPT ![r] =
       IF POD_ID = NoPod THEN Finish(r, 200, "TERMINATED")
       ELSE [@ EXCEPT !.pc = "term_call"]]
  /\ UNCHANGED <<variant, template, raw, POD_ID, fingerprint, metadata, now,
                 last_activity, podsMade, startsSinceStopped>>

\* terminate_instance() forgetting the identifier when the call has failed.
terminate_instance_call_ClearOnFailure(r) ==
  /\ variant = "pod"
  /\ req[r].op = "terminate" /\ req[r].pc = "term_call"
  /\ \E f \in ReadFaults :
       IF f # "ok" \/ POD_ID = NoPod
       THEN /\ req' = [req EXCEPT ![r] =
                 [Finish(r, 500, "")
                  EXCEPT !.nTerm = @ + 1, !.ret = POD_ID,
                         !.ans = IF f # "ok" THEN f ELSE "notfound"]]
            /\ POD_ID' = NoPod
            /\ UNCHANGED raw
       ELSE /\ raw' = [raw EXCEPT ![POD_ID] = Absent]
            /\ req' = [req EXCEPT ![r] =
                 [@ EXCEPT !.pc = "term_clear", !.nTerm = @ + 1,
                           !.ret = POD_ID, !.ans = "ok"]]
            /\ UNCHANGED POD_ID
  /\ UNCHANGED <<variant, template, fingerprint, metadata, now,
                 last_activity, podsMade, startsSinceStopped>>

\* runpod.terminate_pod(POD_ID): the provider terminate call.  Whether the
\* provider refuses a pod it no longer has is its own choice.
terminate_instance_call(r) ==
  /\ variant = "pod"
  /\ req[r].op = "terminate" /\ req[r].pc = "term_call"
  /\ \E f \in ReadFaults :
       IF f # "ok" \/ POD_ID = NoPod
       THEN /\ req' = [req EXCEPT ![r] =
                 [Finish(r, 500, "")
                  EXCEPT !.nTerm = @ + 1, !.ret = POD_ID,
                         !.ans = IF f # "ok" THEN f ELSE "notfound"]]
            /\ UNCHANGED raw
       ELSE /\ raw' = [raw EXCEPT ![POD_ID] = Absent]
            /\ req' = [req EXCEPT ![r] =
                 [@ EXCEPT !.pc = "term_clear", !.nTerm = @ + 1,
                           !.ret = POD_ID, !.ans = "ok"]]
  /\ UNCHANGED <<variant, template, POD_ID, fingerprint, metadata, now,
                 last_activity, podsMade, startsSinceStopped>>

\* terminate_instance() answering success with the identifier left stored.
terminate_instance_clear_Keep(r) ==
  /\ variant = "pod"
  /\ req[r].op = "terminate" /\ req[r].pc = "term_clear"
  /\ req' = [req EXCEPT ![r] = [Finish(r, 200, "TERMINATED") EXCEPT !.ret = POD_ID]]
  /\ UNCHANGED <<variant, template, raw, POD_ID, fingerprint, metadata, now,
                 last_activity, podsMade, startsSinceStopped>>

\* POST /terminate: old_pod_id = POD_ID, POD_ID = None, and the success
\* response.
terminate_instance_clear(r) ==
  /\ variant = "pod"
  /\ req[r].op = "terminate" /\ req[r].pc = "term_clear"
  /\ POD_ID' = NoPod
  /\ req' = [req EXCEPT ![r] = [Finish(r, 200, "TERMINATED") EXCEPT !.ret = POD_ID]]
  /\ UNCHANGED <<variant, template, raw, fingerprint, metadata, now,
                 last_activity, podsMade, startsSinceStopped>>

\* ================================================== the job dispatcher
\* main.py: POST /render.  Every exception of a step leaves render() and is
\* answered 500; nothing is caught.
MaxJobs == 2
JobIds == 1..MaxJobs

DoneFlag == "DONE.flag"
OutNames == {"a.png", "b.jpg", "c.txt"}

\* b.name.endswith((".png", ".jpg"))
endswith_image(name) == name \in {"a.png", "b.jpg"}

\* The metadata items render() pushes for a job.
RenderItems(j) ==
  {<<"startup-script-url", "STARTUP_URL">>, <<"job_workflow", j>>,
   <<"model_uri", j>>, <<"output_bucket", j>>}

\* The workflows a caller may send: a graph alone, and a graph together with
\* a client_id of the caller's own.
Workflows ==
  {[k \in {"graph"} |-> "g"],
   [k \in {"graph", "client_id"} |-> IF k = "graph" THEN "g" ELSE "caller"]}

\* str(job_id)
JobName(j) == ToString(j)

\* d[k] = v
dict_setitem(heap, o, k, v) ==
  [heap EXCEPT ![o] = [x \in DOMAIN @ \cup {k} |-> IF x = k THEN v ELSE @[x]]]

\* Binding the name to the caller's own dict, with no copy made.
dict_copy_Alias(heap, o) == [heap |-> heap, ref |-> o]

\* d.copy(): a new dict object with the keys and values of d.
dict_copy(heap, o) == [heap |-> [heap EXCEPT !["new"] = heap[o]], ref |-> "new"]

\* job_id = str(uuid.uuid4()), an identifier no other job has; the workflow
\* copied, client_id and output_path set in the copy.
render_begin(r) ==
  /\ variant = "dispatch"
  /\ req[r].pc = "idle"
  /\ \A q \in Reqs : q < r => req[q].pc # "idle"
  /\ jobsMade < MaxJobs
  /\ jobsMade' = jobsMade + 1
  /\ \E w \in Workflows :
       LET job_id == jobsMade + 1
           heap0 == [o \in ObjIds |-> IF o = "arg" THEN w ELSE EmptyDict]
           c == dict_copy(heap0, "arg")
           heap1 == dict_setitem(c.heap, c.ref, "client_id", JobName(job_id))
           heap2 == dict_setitem(heap1, c.ref, "output_path", "/tmp/comfy-out")
       IN req' = [req EXCEPT ![r] =
            [Idle EXCEPT !.op = "render", !.pc = "upload", !.job_id = job_id,
                         !.sent = w, !.heap = heap2, !.workflow = c.ref]]
  /\ UNCHANGED <<variant, template, raw, POD_ID, fingerprint, metadata, now,
                 last_activity, podsMade, startsSinceStopped>>
  /\ UNCHANGED <<jobBlobs, outBlobs, touched, mapVars>>

\* 1) upload_json(JOB_BUCKET, job_blob, workflow)
render_upload(r) ==
  /\ variant = "dispatch"
  /\ req[r].op = "render" /\ req[r].pc = "upload"
  /\ \E f \in ReadFaults :
       IF f # "ok"
       THEN /\ req' = [req EXCEPT ![r] = [Finish(r, 500, "") EXCEPT !.ans = f]]
            /\ UNCHANGED jobBlobs
       ELSE /\ jobBlobs' = jobBlobs \cup
                 {<<req[r].job_id, req[r].heap[req[r].workflow]>>}
            /\ req' = [req EXCEPT ![r] = [@ EXCEPT !.pc = "push_get"]]
  /\ UNCHANGED <<variant, template, raw, POD_ID, fingerprint, metadata, now,
                 last_activity, podsMade, startsSinceStopped>>
  /\ UNCHANGED <<outBlobs, jobsMade, touched, mapVars>>

\* push_metadata(): read the instance record for its fingerprint.
push_metadata_get(r) ==
  /\ variant = "dispatch"
  /\ req[r].op = "render" /\ req[r].pc = "push_get"
  /\ \E f \in ReadFaults :
       req' = [req EXCEPT ![r] =
         IF f # "ok" THEN [Finish(r, 500, "") EXCEPT !.ans = f]
         ELSE IF raw[GCE_INSTANCE] = Absent
         THEN [Finish(r, 500, "") EXCEPT !.ans = "notfound"]
         ELSE [@ EXCEPT !.pc = "push_set", !.fp = fingerprint]]
  /\ UNCHANGED <<variant, template, raw, POD_ID, fingerprint, metadata, now,
                 last_activity, podsMade, startsSinceStopped>>
  /\ UNCHANGED <<dispVars, touched, mapVars>>

\* push_metadata() going on to wait for an operation although setMetadata
\* was refused.
push_metadata_set_Swallow(r) ==
  /\ variant = "dispatch"
  /\ req[r].op = "render" /\ req[r].pc = "push_set"
  /\ \E f \in CallFaults :
       IF f # "ok" \/ raw[GCE_INSTANCE] = Absent \/ req[r].fp # fingerprint
       THEN /\ req' = [req EXCEPT ![r] =
                 [@ EXCEPT !.pc = "push_wait", !.nMeta = @ + 1,
                           !.ans = IF f # "ok" THEN f
                                   ELSE IF raw[GCE_INSTANCE] = Absent
                                   THEN "notfound" ELSE "conflict"]]
            /\ UNCHANGED <<fingerprint, metadata>>
       ELSE /\ fingerprint < MaxWrites
            /\ fingerprint' = fingerprint + 1
            /\ metadata' = RenderItems(req[r].job_id)
            /\ req' = [req EXCEPT ![r] =
                 [@ EXCEPT !.pc = "push_wait", !.nMeta = @ + 1,
                           !.pushed = TRUE, !.ans = "ok"]]
  /\ UNCHANGED <<variant, template, raw, POD_ID, now, last_activity, podsMade,
                 startsSinceStopped>>
  /\ UNCHANGED <<dispVars, touched, mapVars>>

\* setMetadata adding the items to the ones the instance has.
push_metadata_set_Merge(r) ==
  /\ variant = "dispatch"
  /\ req[r].op = "render" /\ req[r].pc = "push_set"
  /\ \E f \in CallFaults :
       IF f # "ok" \/ raw[GCE_INSTANCE] = Absent \/ req[r].fp # fingerprint
       THEN /\ req' = [req EXCEPT ![r] =
                 [Finish(r, 500, "") EXCEPT
                    !.nMeta = @ + 1,
                    !.ans = IF f # "ok" THEN f
                            ELSE IF raw[GCE_INSTANCE] = Absent THEN "notfound"
                            ELSE "conflict"]]
            /\ UNCHANGED <<fingerprint, metadata>>
       ELSE /\ fingerprint < MaxWrites
            /\ fingerprint' = fingerprint + 1
            /\ metadata' = metadata \cup RenderItems(req[r].job_id)
            /\ req' = [req EXCEPT ![r] =
                 [@ EXCEPT !.pc = "push_wait", !.nMeta = @ + 1,
                           !.pushed = TRUE, !.ans = "ok"]]
  /\ UNCHANGED <<variant, template, raw, POD_ID, now, last_activity, podsMade,
                 startsSinceStopped>>
  /\ UNCHANGED <<dispVars, touched, mapVars>>

\* push_metadata(): setMetadata with the fingerprint read.  The provider
\* refuses a stale fingerprint (HTTP 412); the HttpError leaves
\* push_metadata() and render().
push_metadata_set(r) ==
  /\ variant = "dispatch"
  /\ req[r].op = "render" /\ req[r].pc = "push_set"
  /\ \E f \in CallFaults :
       IF f # "ok" \/ raw[GCE_INSTANCE] = Absent \/ req[r].fp # fingerprint
       THEN /\ req' = [req EXCEPT ![r] =
                 [Finish(r, 500, "") EXCEPT
                    !.nMeta = @ + 1,
                    !.ans = IF f # "ok" THEN f
                            ELSE IF raw[GCE_INSTANCE] = Absent THEN "notfound"
                            ELSE "conflict"]]
            /\ UNCHANGED <<fingerprint, metadata>>
       ELSE /\ fingerprint < MaxWrites
            /\ fingerprint' = fingerprint + 1
            /\ metadata' = RenderItems(req[r].job_id)
            /\ req' = [req EXCEPT ![r] =
                 [@ EXCEPT !.pc = "push_wait", !.nMeta = @ + 1,
                           !.pushed = TRUE, !.ans = "ok"]]
  /\ UNCHANGED <<variant, template, raw, POD_ID, now, last_activity, podsMade,
                 startsSinceStopped>>
  /\ UNCHANGED <<dispVars, touched, mapVars>>

\* push_metadata() leaving its wait loop on DONE without looking for an
\* error in the operation.
push_metadata_wait_NoErrorCheck(r) ==
  /\ variant = "dispatch"
  /\ req[r].op = "render" /\ req[r].pc = "push_wait"
  /\ \E f \in CallFaults :
       req' = [req EXCEPT ![r] = [@ EXCEPT !.pc = "start", !.ans = f]]
  /\ UNCHANGED <<variant, template, raw, POD_ID, fingerprint, metadata, now,
                 last_activity, podsMade, startsSinceStopped>>
  /\ UNCHANGED <<dispVars, touched, mapVars>>

\* push_metadata(): poll the operation until DONE; an embedded error is a
\* RuntimeError.
push_metadata_wait(r) ==
  /\ variant = "dispatch"
  /\ req[r].op = "render" /\ req[r].pc = "push_wait"
  /\ \E f \in CallFaults :
       req' = [req EXCEPT ![r] =
         IF f # "ok" THEN [Finish(r, 500, "") EXCEPT !.ans = f]
         ELSE [@ EXCEPT !.pc = "start"]]
  /\ UNCHANGED <<variant, template, raw, POD_ID, fingerprint, metadata, now,
                 last_activity, podsMade, startsSinceStopped>>
  /\ UNCHANGED <<dispVars, touched, mapVars>>

\* 3) compute.instances().start(), whatever the instance's status.
render_start(r) ==
  /\ variant = "dispatch"
  /\ req[r].op = "render" /\ req[r].pc = "start"
  /\ \E f \in CallFaults :
       IF f # "ok" \/ raw[GCE_INSTANCE] = Absent
       THEN /\ req' = [req EXCEPT ![r] =
                 [Finish(r, 500, "") EXCEPT
                    !.nStart = @ + 1, !.obs = raw[GCE_INSTANCE],
                    !.ans = IF f # "ok" THEN f ELSE "notfound"]]
            /\ UNCHANGED raw
       ELSE /\ raw' = [raw EXCEPT ![GCE_INSTANCE] =
                 IF @ = "TERMINATED" THEN "PROVISIONING" ELSE @]
            /\ req' = [req EXCEPT ![r] =
                 [@ EXCEPT !.pc = "poll", !.nStart = @ + 1,
                           !.obs = raw[GCE_INSTANCE], !.ans = "ok"]]
  /\ UNCHANGED <<variant, template, POD_ID, fingerprint, metadata, now,
                 last_activity, podsMade, startsSinceStopped>>
  /\ UNCHANGED <<dispVars, touched, mapVars>>

\* A wait that gives up when it does not find the marker.
render_poll_Deadline(r) ==
  /\ variant = "dispatch"
  /\ req[r].op = "render" /\ req[r].pc = "poll"
  /\ req' = [req EXCEPT ![r] =
       IF <<req[r].job_id, DoneFlag>> \in outBlobs
       THEN [@ EXCEPT !.pc = "collect"] ELSE Finish(r, 504, "")]
  /\ UNCHANGED <<variant, template, raw, POD_ID, fingerprint, metadata, now,
                 last_activity, podsMade, startsSinceStopped>>
  /\ UNCHANGED <<dispVars, touched, mapVars>>

\* A wait released by the completion marker of any job.
render_poll_AnyFlag(r) ==
  /\ variant = "dispatch"
  /\ req[r].op = "render" /\ req[r].pc = "poll"
  /\ req' = [req EXCEPT ![r] =
       IF \E j \in JobIds : <<j, DoneFlag>> \in outBlobs
       THEN [@ EXCEPT !.pc = "collect"] ELSE @]
  /\ UNCHANGED <<variant, template, raw, POD_ID, fingerprint, metadata, now,
                 last_activity, podsMade, startsSinceStopped>>
  /\ UNCHANGED <<dispVars, touched, mapVars>>

\* 4) while not flag_blob.exists(): time.sleep(5)
render_poll(r) ==
  /\ variant = "dispatch"
  /\ req[r].op = "render" /\ req[r].pc = "poll"
  /\ req' = [req EXCEPT ![r] =
       IF <<req[r].job_id, DoneFlag>> \in outBlobs
       THEN [@ EXCEPT !.pc = "collect"] ELSE @]
  /\ UNCHANGED <<variant, template, raw, POD_ID, fingerprint, metadata, now,
                 last_activity, podsMade, startsSinceStopped>>
  /\ UNCHANGED <<dispVars, touched, mapVars>>

\* render() collecting only the objects whose name ends in .png.
render_collect_PngOnly(r) ==
  /\ variant = "dispatch"
  /\ req[r].op = "render" /\ req[r].pc = "collect"
  /\ \E f \in ReadFaults :
       LET files == {b \in outBlobs : b[1] = req[r].job_id /\ b[2] = "a.png"}
       IN req' = [req EXCEPT ![r] =
            IF f # "ok" THEN [Finish(r, 500, "") EXCEPT !.ans = f]
            ELSE IF files = {} THEN Finish(r, 500, "No images produced")
            ELSE [Finish(r, 200, "") EXCEPT !.files = files]]
  /\ UNCHANGED <<variant, template, raw, POD_ID, fingerprint, metadata, now,
                 last_activity, podsMade, startsSinceStopped>>
  /\ UNCHANGED <<dispVars, touched, mapVars>>

\* 5) the objects under the job's prefix that are images, as signed URLs;
\* HTTPException(500, "No images produced") when there is none.  Listing the
\* bucket or signing a URL may raise.
render_collect(r) ==
  /\ variant = "dispatch"
  /\ req[r].op = "render" /\ req[r].pc = "collect"
  /\ \E f \in ReadFaults :
       LET files == {b \in outBlobs : b[1] = req[r].job_id /\ endswith_image(b[2])}
       IN req' = [req EXCEPT ![r] =
            IF f # "ok" THEN [Finish(r, 500, "") EXCEPT !.ans = f]
            ELSE IF files = {} THEN Finish(r, 500, "No images produced")
            ELSE [Finish(r, 200, "") EXCEPT !.files = files]]
  /\ UNCHANGED <<variant, template, raw, POD_ID, fingerprint, metadata, now,
                 last_activity, podsMade, startsSinceStopped>>
  /\ UNCHANGED <<dispVars, touched, mapVars>>

\* The job the instance's metadata names, if its description is stored.
WorkerJobs ==
  {j \in JobIds : /\ <<"job_workflow", j>> \in metadata
                   /\ \E b \in jobBlobs : b[1] = j}

\* The worker on the running instance writes an output object of the job
\* its metadata names ...
WorkerWrite ==
  /\ variant = "dispatch"
  /\ raw[GCE_INSTANCE] = "RUNNING"
  /\ \E j \in WorkerJobs, n \in OutNames :
       /\ <<j, DoneFlag>> \notin outBlobs
       /\ <<j, n>> \notin outBlobs
       /\ outBlobs' = outBlobs \cup {<<j, n>>}
  /\ UNCHANGED <<ctlVars, jobBlobs, jobsMade, touched, mapVars>>

\* ... and, when it is through, the job's completion marker.
WorkerDone ==
  /\ variant = "dispatch"
  /\ raw[GCE_INSTANCE] = "RUNNING"
  /\ \E j \in WorkerJobs :
       /\ <<j, DoneFlag>> \notin outBlobs
       /\ outBlobs' = outBlobs \cup {<<j, DoneFlag>>}
  /\ UNCHANGED <<ctlVars, jobBlobs, jobsMade, touched, mapVars>>

render(r) ==
  \/ render_begin(r)
  \/ render_upload(r)
  \/ push_metadata_get(r)
  \/ push_metadata_set(r)
  \/ push_metadata_wait(r)
  \/ render_start(r)
  \/ render_poll(r)
  \/ render_collect(r)

\* ============================================ the controller specification
InitGce ==
  /\ variant = "gce"
  /\ template = FALSE
  /\ \E s \in {"TERMINATED", Absent} :
       raw = [i \in Ids |-> IF i = GCE_INSTANCE THEN s ELSE Absent]
  /\ POD_ID = NoPod
  /\ podsMade = 1

InitPod ==
  /\ variant = "pod"
  /\ template \in BOOLEAN
  /\ \E s \in {"EXITED", Absent} :
       raw = [i \in Ids |-> IF i = 1 THEN s ELSE Absent]
  /\ POD_ID \in {NoPod, 1}
  /\ podsMade = 1

CtlCore ==
  /\ fingerprint = 0
  /\ now = 0
  /\ last_activity = 0
  /\ req = [r \in Reqs |-> Idle]
  /\ startsSinceStopped = 0

\* The instance has no metadata yet.
CtlRest ==
  /\ CtlCore
  /\ metadata = {}

\* No job has been submitted, the buckets are empty.
DispRest ==
  /\ jobBlobs = {}
  /\ outBlobs = {}
  /\ jobsMade = 0

\* The status mapping is not under study.
MapOff ==
  /\ mapPc = "off"
  /\ mapPod = [present |-> FALSE, w |-> "", c |-> "upper"]
  /\ mapArg = [w |-> "", c |-> "upper"]
  /\ mapOut = ""

Init ==
  /\ InitGce \/ InitPod
  /\ CtlRest
  /\ DispRest
  /\ touched = -1
  /\ MapOff

Handler(r) ==
  \/ TouchRead(r)
  \/ TouchWrite(r)
  \/ get_activity(r)
  \/ gce_get_status(r)
  \/ gce_start_check(r)
  \/ gce_meta_get(r)
  \/ gce_meta_set(r)
  \/ gce_meta_wait(r)
  \/ gce_start_call(r)
  \/ gce_start_wait(r)
  \/ gce_stop_check(r)
  \/ gce_stop_call(r)
  \/ gce_stop_wait(r)
  \/ gce_keep_alive(r)
  \/ pod_get_status(r)
  \/ pod_start_resolve(r)
  \/ create_or_get_pod_check(r)
  \/ create_or_get_pod_create(r)
  \/ create_or_get_pod_find(r)
  \/ pod_start_assign(r)
  \/ pod_start_check(r)
  \/ pod_resume(r)
  \/ pod_stop_check(r)
  \/ pod_stop_call(r)
  \/ terminate_instance_check(r)
  \/ terminate_instance_call(r)
  \/ terminate_instance_clear(r)

\* What a step of the controller leaves alone.
CtlFrame == UNCHANGED <<touched, mapVars, dispVars>>

Next ==
  \/ \E r \in Reqs, op \in Ops : Begin(r, op) /\ CtlFrame
  \/ \E r \in Reqs : Return(r) /\ CtlFrame
  \/ \E r \in Reqs : Handler(r) /\ CtlFrame
  \/ \E i \in Ids : ProviderStep(i) /\ CtlFrame
  \/ Tick /\ CtlFrame

Spec == Init /\ [][Next]_vars

\* ==================================================== the status mapping
\* map_runpod_status as get_pod_status uses it, on every pod record: a status
\* word known or not, in any letter case, or no desiredStatus at all.
MapWords == PodRaw \cup {"UNKNOWN", "STAGING"}
PodRecords ==
  [present : {TRUE}, w : MapWords, c : Casings]
    \cup {[present |-> FALSE, w |-> "", c |-> "upper"]}

InitMap ==
  /\ InitPod /\ POD_ID = NoPod /\ template = FALSE /\ raw = [i \in Ids |-> Absent]
  /\ CtlRest
  /\ DispRest
  /\ touched = -1
  /\ mapPc = "input"
  /\ mapPod \in PodRecords
  /\ mapArg = [w |-> "", c |-> "upper"]
  /\ mapOut = ""

\* runpod_status = pod.get("desiredStatus", "UNKNOWN")
MapExtract ==
  /\ mapPc = "input"
  /\ mapArg' = desiredStatus(mapPod)
  /\ mapPc' = "extracted"
  /\ UNCHANGED <<ctlVars, touched, dispVars, mapPod, mapOut>>

\* status = map_runpod_status(runpod_status)
MapApply ==
  /\ mapPc = "extracted"
  /\ mapOut' = map_runpod_status(mapArg)
  /\ mapPc' = "mapped"
  /\ UNCHANGED <<ctlVars, touched, dispVars, mapPod, mapArg>>

NextMap == MapExtract \/ MapApply

SpecMap == InitMap /\ [][NextMap]_vars

\* ==================================================== the activity clock
\* Requests served one at a time while the wall clock moves over the instants
\* around zero, one and two timeouts.
MaxSkew == 1

ClockPoints ==
  {b + d : b \in {0, GCE_INACTIVITY_TIMEOUT, POD_INACTIVITY_TIMEOUT,
                   2 * POD_INACTIVITY_TIMEOUT},
           d \in 0..MaxSkew}

ClockOps == {"start", "keepalive", "activity", "status"}

InitClock ==
  /\ \/ InitGce /\ raw[GCE_INSTANCE] = "TERMINATED"
     \/ InitPod /\ POD_ID = 1 /\ raw[1] = "EXITED" /\ template = FALSE
  /\ CtlRest
  /\ DispRest
  /\ touched = -1
  /\ MapOff

\* A request arrives when no other is being served.
ClockBegin(r, op) ==
  /\ \A q \in Reqs : req[q].pc = "idle"
  /\ Begin(r, op)
  /\ UNCHANGED <<touched, mapVars, dispVars>>

\* A step of the handler; the clock reading of /start and /keep-alive is
\* remembered.
ClockStep(r) ==
  /\ Handler(r)
  /\ touched' = IF req[r].pc = "touch_r" THEN now ELSE touched
  /\ UNCHANGED <<mapVars, dispVars>>

\* Time passes.
Advance ==
  /\ \E u \in ClockPoints : u > now /\ now' = u
  /\ UNCHANGED <<variant, template, raw, POD_ID, fingerprint, metadata,
                 last_activity, podsMade, req, startsSinceStopped>>
  /\ UNCHANGED <<touched, mapVars, dispVars>>

NextClock ==
  \/ \E r \in Reqs, op \in ClockOps : ClockBegin(r, op)
  \/ \E r \in Reqs : Return(r) /\ CtlFrame
  \/ \E r \in Reqs : ClockStep(r)
  \/ \E i \in Ids : ProviderStep(i) /\ CtlFrame
  \/ Advance

SpecClock == InitClock /\ [][NextClock]_vars

\* ================================================ the idle instance
\* Every route of the controller, requests served one at a time, while the
\* wall clock moves on.  A request that was accepted is served to its end,
\* time does not stand still, and a client keeps asking GET /activity, the
\* one reader of the clock; no client has to send anything else, and the
\* instance need not move by itself.
NextIdle ==
  \/ \E r \in Reqs, op \in Ops : ClockBegin(r, op)
  \/ \E r \in Reqs : Return(r) /\ CtlFrame
  \/ \E r \in Reqs : ClockStep(r)
  \/ \E i \in Ids : ProviderStep(i) /\ CtlFrame
  \/ Advance

SpecIdle ==
  /\ InitClock
  /\ [][NextIdle]_vars
  /\ WF_vars(\E r \in Reqs : ClockStep(r))
  /\ WF_vars(\E r \in Reqs : Return(r) /\ CtlFrame)
  /\ WF_vars(Advance)
  /\ WF_vars(\E r \in Reqs : ClockBegin(r, "activity"))

\* ============================================ the dispatcher specification
\* The instance was provisioned out of band and carries an item of its
\* operator's in its metadata.
OperatorItem == <<"ssh-keys", "operator">>

InitDispatch ==
  /\ variant = "dispatch"
  /\ template = FALSE
  /\ \E s \in {"TERMINATED", Absent} :
       raw = [i \in Ids |-> IF i = GCE_INSTANCE THEN s ELSE Absent]
  /\ POD_ID = NoPod
  /\ podsMade = 1
  /\ CtlCore
  /\ metadata = {OperatorItem}
  /\ DispRest
  /\ touched = -1
  /\ MapOff

NextDispatch ==
  \/ \E r \in Reqs : render(r)
  \/ \E r \in Reqs : Return(r) /\ CtlFrame
  \/ ProviderStep(GCE_INSTANCE) /\ CtlFrame
  \/ WorkerWrite
  \/ WorkerDone

SpecDispatch == InitDispatch /\ [][NextDispatch]_vars

\* ============================ concurrent Starts of a fresh pod deployment
\* RUNPOD_POD_ID is not set and the provider has no pod yet.
InitFresh ==
  /\ variant = "pod"
  /\ template \in BOOLEAN
  /\ raw = [i \in Ids |-> Absent]
  /\ POD_ID = NoPod
  /\ podsMade = 0
  /\ CtlRest
  /\ DispRest
  /\ touched = -1
  /\ MapOff

\* The steps of start_instance() in the pod variant.
PodStartStep(r) ==
  \/ TouchRead(r)
  \/ TouchWrite(r)
  \/ pod_start_resolve(r)
  \/ create_or_get_pod_check(r)
  \/ create_or_get_pod_create(r)
  \/ create_or_get_pod_find(r)
  \/ pod_start_assign(r)
  \/ pod_start_check(r)
  \/ pod_resume(r)

NextStarts ==
  \/ \E r \in Reqs : Begin(r, "start") /\ CtlFrame
  \/ \E r \in Reqs : Return(r) /\ CtlFrame
  \/ \E r \in Reqs : PodStartStep(r) /\ CtlFrame
  \/ \E i \in Ids : ProviderStep(i) /\ CtlFrame

SpecStarts == InitFresh /\ [][NextStarts]_vars

\* ================================================================ claims
NoCalls(q) ==
  q.nMeta = 0 /\ q.nStart = 0 /\ q.nStop = 0 /\ q.nTerm = 0 /\ q.nCreate = 0

\* C1: a Start that observes RUNNING or PROVISIONING answers success with the
\* observed status and has issued neither a metadata write nor a provider
\* start/resume call; no Start issues more than one provider start call, so
\* of two Starts of which the second observes what the first left, only the
\* first has called the provider.
C1_StartIdempotent ==
  \A r \in Reqs :
    req[r].op = "start" =>
      /\ req[r].nStart <= 1
      /\ req[r].obs \in {"RUNNING", "PROVISIONING"} =>
           /\ req[r].pc = "done"
           /\ req[r].res = 200
           /\ req[r].rstatus = req[r].obs
           /\ req[r].nMeta = 0
           /\ req[r].nStart = 0

\* A Start that called the provider has answered, and a second Start has
\* observed PROVISIONING or RUNNING and answered without a call.
C1_Witness ==
  \E r1, r2 \in Reqs :
    /\ r1 # r2
    /\ req[r1].op = "start" /\ req[r1].pc = "done"
    /\ req[r1].res = 200 /\ req[r1].nStart = 1
    /\ req[r2].op = "start" /\ req[r2].pc = "done"
    /\ req[r2].obs \in {"RUNNING", "PROVISIONING"} /\ req[r2].nStart = 0

\* C2: of the Start requests that observed the instance stopped, at most one
\* has its provider start/resume call accepted before the instance is next
\* stopped.
C2_NoDuplicateStart == startsSinceStopped <= 1

\* C3: a Stop that observes TERMINATED or STOPPING answers success with the
\* observed status and no provider stop call; a Stop that observes any other
\* status issues exactly one provider stop call and, the provider accepting
\* it, answers success with STOPPING.
C3_StopIdempotent ==
  \A r \in Reqs :
    req[r].op = "stop" =>
      /\ req[r].obs \in {"TERMINATED", "STOPPING"} =>
           /\ req[r].pc = "done"
           /\ req[r].res = 200
           /\ req[r].rstatus = req[r].obs
           /\ req[r].nStop = 0
      /\ (req[r].obs \notin {"", "TERMINATED", "STOPPING"} /\ req[r].pc = "done") =>
           /\ req[r].nStop = 1
           /\ req[r].ans = "ok" => (req[r].res = 200 /\ req[r].rstatus = "STOPPING")

\* One Stop has called the provider and answered STOPPING, and another has
\* observed STOPPING and answered without a call.
C3_Witness ==
  \E r1, r2 \in Reqs :
    /\ req[r1].op = "stop" /\ req[r1].pc = "done"
    /\ req[r1].nStop = 1 /\ req[r1].res = 200 /\ req[r1].rstatus = "STOPPING"
    /\ req[r2].op = "stop" /\ req[r2].pc = "done"
    /\ req[r2].obs = "STOPPING" /\ req[r2].nStop = 0 /\ req[r2].res = 200

\* C4: the status a successful GetStatus returns is one of the eight
\* normalized values.
C4_StatusNormalized ==
  \A r \in Reqs :
    (req[r].op = "status" /\ req[r].pc = "done" /\ req[r].res = 200) =>
      req[r].rstatus \in Normalized

\* The instance GetStatus asks the provider about is one the provider does
\* not have.
TargetAbsent ==
  IF variant = "gce" THEN raw[GCE_INSTANCE] = Absent
  ELSE POD_ID # NoPod /\ raw[POD_ID] = Absent

\* C6: the step that answers a GetStatus changes nothing at the provider,
\* neither the ActivityClock nor the stored identifier, and when the provider
\* answers that the instance does not exist the response is a success
\* carrying NOT_FOUND.
C6_GetStatusPure ==
  [][\A r \in Reqs :
       (req[r].op = "status" /\ req[r].pc = "get" /\ req'[r].pc = "done") =>
         /\ UNCHANGED <<raw, metadata, fingerprint, last_activity, POD_ID, podsMade>>
         /\ NoCalls(req'[r])
         /\ (req'[r].ans = "ok" /\ TargetAbsent) =>
              (req'[r].res = 200 /\ req'[r].rstatus = "NOT_FOUND")]_vars

\* A GetStatus has answered NOT_FOUND for an instance the provider lacks.
C6_Witness ==
  \E r \in Reqs :
    /\ req[r].op = "status" /\ req[r].pc = "done" /\ req[r].ans = "ok"
    /\ TargetAbsent
    /\ req[r].res = 200 /\ req[r].rstatus = "NOT_FOUND"

\* C7: every step of a KeepAlive leaves the provider's instances, the
\* metadata and the stored identifier as they are; its first step reads the
\* clock, its second stores the time read into the ActivityClock, no other
\* step of it writes the ActivityClock; it issues no mutating provider call
\* and its response is a success whatever the provider answered.
C7_KeepAliveOnlyClock ==
  [][\A r \in Reqs :
       (req[r].op = "keepalive" /\ req[r].pc # "done" /\ req'[r] # req[r]) =>
         /\ UNCHANGED <<raw, POD_ID, fingerprint, metadata, podsMade>>
         /\ req[r].pc = "touch_r" => (req'[r].t = now /\ UNCHANGED last_activity)
         /\ req[r].pc = "touch_w" => last_activity' = req[r].t
         /\ req[r].pc = "get" => UNCHANGED last_activity
         /\ NoCalls(req'[r])
         /\ req'[r].pc = "done" => req'[r].res = 200]_vars

\* A KeepAlive has answered success although the provider could not be
\* reached, and the ActivityClock holds a time later than the initial one.
C7_Witness ==
  \E r \in Reqs :
    /\ req[r].op = "keepalive" /\ req[r].pc = "done" /\ req[r].res = 200
    /\ req[r].ans = "error"
    /\ last_activity = now /\ now > 0

Recognized(pod) ==
  pod.present /\ pod.w \in {"RUNNING", "IDLE", "STOPPED", "STOPPING", "STARTING",
                             "PENDING", "FAILED", "EXITED"}

\* C5: the mapping answers every pod record with one of the normalized
\* statuses, never with an exception, and with UNKNOWN whenever the raw status
\* is missing or not a word it knows.
C5_MappingTotal ==
  mapPc = "mapped" =>
    /\ mapOut \in Normalized
    /\ mapOut # "RAISED"
    /\ ~Recognized(mapPod) => mapOut = "UNKNOWN"

\* A lower-case word the mapping does not know has been mapped to UNKNOWN.
C5_Witness ==
  /\ mapPc = "mapped"
  /\ mapPod = [present |-> TRUE, w |-> "PAUSED", c |-> "lower"]
  /\ mapOut = "UNKNOWN"

\* C8: with requests served one after the other, GetActivity at time u
\* answers is_inactive = TRUE exactly when u minus the clock reading of the
\* most recent Start or KeepAlive is greater than the timeout; right after a
\* KeepAlive, and up to and including the timeout later, it answers FALSE.
C8_InactiveIffTimeoutExceeded ==
  [][\A r \in Reqs :
       (/\ req[r].op = "activity" /\ req[r].pc = "compute"
        /\ req'[r].pc = "done"
        /\ touched >= 0) =>
         /\ req'[r].res = 200
         /\ req'[r].inactive <=> (now - touched > INACTIVITY_TIMEOUT)
         /\ now - touched <= INACTIVITY_TIMEOUT => ~req'[r].inactive]_vars

\* GetActivity has answered is_inactive = FALSE exactly one timeout after a
\* Start or KeepAlive that happened later than the service's own start.
C8_Witness ==
  \E r \in Reqs :
    /\ req[r].op = "activity" /\ req[r].pc = "done"
    /\ touched > 0
    /\ req[r].t = INACTIVITY_TIMEOUT
    /\ ~req[r].inactive

\* C10: of the /render requests that have read the same fingerprint, at most
\* one has had its metadata write applied; a request only gets beyond
\* setMetadata with its write applied, and one whose write was refused for a
\* stale fingerprint has failed without a provider start call.
C10_StaleWriteRejected ==
  /\ \A r1, r2 \in Reqs :
       (/\ r1 # r2
        /\ req[r1].op = "render" /\ req[r2].op = "render"
        /\ req[r1].nMeta = 1 /\ req[r2].nMeta = 1
        /\ req[r1].fp = req[r2].fp) =>
         ~(req[r1].pushed /\ req[r2].pushed)
  /\ \A r \in Reqs :
       req[r].op = "render" =>
         /\ req[r].pc \in {"push_wait", "start", "poll", "collect"} => req[r].pushed
         /\ req[r].nStart > 0 => req[r].pushed
         /\ req[r].ans = "conflict" =>
              /\ req[r].pc = "done" /\ req[r].res = 500
              /\ ~req[r].pushed /\ req[r].nStart = 0

\* Two /render requests read the same fingerprint; the write of one was
\* applied, the write of the other was refused and the request has failed.
C10_Witness ==
  \E r1, r2 \in Reqs :
    /\ req[r1].op = "render" /\ req[r2].op = "render"
    /\ req[r1].fp = req[r2].fp
    /\ req[r1].pushed /\ req[r1].nMeta = 1
    /\ req[r2].ans = "conflict" /\ req[r2].nMeta = 1
    /\ req[r2].pc = "done" /\ req[r2].res = 500
    /\ fingerprint = req[r1].fp + 1

\* C11: a Start that ended because the provider reported exhausted capacity
\* or a quota limit, at whichever step, has answered 503.
C11_CapacityIs503 ==
  \A r \in Reqs :
    (/\ req[r].op = "start" /\ req[r].pc = "done"
     /\ req[r].ans \in {"capacity", "quota"}) =>
      req[r].res = 503

\* C12: a Start or Stop that ended because the provider reported the instance
\* as not existing has answered 404.
C12_NotFoundIs404 ==
  \A r \in Reqs :
    (/\ req[r].op \in {"start", "stop"} /\ req[r].pc = "done"
     /\ req[r].ans = "notfound") =>
      req[r].res = 404

\* The objects of job j in the output bucket whose name ends in .png or .jpg.
ImagesOf(j) == {b \in outBlobs : b[1] = j /\ b[2] \in {"a.png", "b.jpg"}}

\* C13: the step of /render that follows the sight of the completion marker,
\* when listing and signing do not fail, answers 500 "No images produced"
\* exactly when no object under the job's prefix has a name ending in .png or
\* .jpg, and otherwise answers success with one URL for each such object and
\* for nothing else.
C13_NoImagesIffNone ==
  [][\A r \in Reqs :
       (/\ req[r].op = "render" /\ req[r].pc = "collect"
        /\ req'[r].pc = "done" /\ req'[r].ans # "error") =>
         /\ (req'[r].res = 500 /\ req'[r].rstatus = "No images produced")
              <=> ImagesOf(req[r].job_id) = {}
         /\ ImagesOf(req[r].job_id) # {} =>
              /\ req'[r].res = 200
              /\ req'[r].files = ImagesOf(req[r].job_id)
              /\ req'[r].job_id = req[r].job_id
         /\ req'[r].res = 200 => req'[r].files # {}]_vars

\* A /render has answered "No images produced" for a job whose prefix holds
\* the marker and an object that is not an image, while the other job's
\* prefix holds an image.
C13_Witness ==
  \E r \in Reqs :
    /\ req[r].op = "render" /\ req[r].pc = "done"
    /\ req[r].res = 500 /\ req[r].rstatus = "No images produced"
    /\ <<req[r].job_id, DoneFlag>> \in outBlobs
    /\ <<req[r].job_id, "c.txt">> \in outBlobs
    /\ \E j \in JobIds : j # req[r].job_id /\ ImagesOf(j) # {}

\* C14: at every point of a /render request, answered or not, the caller's
\* workflow object is what the caller sent; the document stored for the job
\* has the job identifier as client_id, the output path, and every other key
\* of the caller's workflow with the caller's value.
C14_CallerWorkflowUntouched ==
  \A r \in Reqs :
    req[r].op = "render" =>
      /\ req[r].heap["arg"] = req[r].sent
      /\ \A b \in jobBlobs :
           b[1] = req[r].job_id =>
             /\ DOMAIN b[2] = DOMAIN req[r].sent \cup {"client_id", "output_path"}
             /\ b[2]["client_id"] = JobName(req[r].job_id)
             /\ b[2]["output_path"] = "/tmp/comfy-out"
             /\ \A k \in DOMAIN req[r].sent \ {"client_id", "output_path"} :
                  b[2][k] = req[r].sent[k]

\* A /render whose caller sent a client_id of its own has failed after the
\* job document was stored: the stored document carries the job identifier,
\* the caller's object still carries the caller's client_id.
C14_Witness ==
  \E r \in Reqs :
    /\ req[r].op = "render" /\ req[r].pc = "done" /\ req[r].res = 500
    /\ "client_id" \in DOMAIN req[r].sent
    /\ req[r].heap["arg"]["client_id"] = "caller"
    /\ \E b \in jobBlobs :
         b[1] = req[r].job_id /\ b[2]["client_id"] = JobName(req[r].job_id)

\* The instance the controller manages is running and the ActivityClock is
\* older than the idle timeout.
RunningIdle ==
  /\ IF variant = "pod" THEN POD_ID # NoPod /\ raw[POD_ID] = "RUNNING"
     ELSE raw[GCE_INSTANCE] = "RUNNING"
  /\ now - last_activity > INACTIVITY_TIMEOUT

\* C15: whenever the instance is running and idle for longer than the
\* timeout, eventually a provider stop call is issued by something other than
\* a client's Stop request, unless the instance stops running or activity
\* resumes first.
C15_IdleReclaimed ==
  RunningIdle ~>
    (\/ \E r \in Reqs : req[r].op # "stop" /\ req[r].nStop > 0
     \/ ~RunningIdle)

\* C16: no two /render requests have both finished their hand-off (metadata
\* pushed, start call issued) and are both waiting for their completion
\* markers.
C16_OneActiveJob ==
  \A r1, r2 \in Reqs :
    (/\ r1 # r2
     /\ req[r1].op = "render" /\ req[r1].pushed /\ req[r1].nStart = 1
     /\ req[r1].pc = "poll"
     /\ req[r2].op = "render" /\ req[r2].pushed /\ req[r2].nStart = 1) =>
      req[r2].pc # "poll"

\* C17 as stated: no request has issued a provider call that creates an
\* instance, and only a Terminate has issued one that destroys an instance.
C17_NeverCreates ==
  \A r \in Reqs :
    /\ req[r].nCreate = 0
    /\ req[r].nTerm > 0 => req[r].op = "terminate"

\* C17: an instance comes into being at the provider only by the create call
\* of a Start of the pod variant with a pod template configured, and ceases
\* to be only by the terminate call of a Terminate, for the stored pod; no
\* other request has issued a create or a terminate call.
C17_CreateOnlyInPodStart ==
  [][/\ \A i \in Ids :
          (raw[i] = Absent /\ raw'[i] # Absent) =>
            /\ variant = "pod" /\ template
            /\ \E r \in Reqs :
                 /\ req[r].op = "start" /\ req[r].pc = "create"
                 /\ req'[r].nCreate = 1
     /\ \A i \in Ids :
          (raw[i] # Absent /\ raw'[i] = Absent) =>
            /\ i = POD_ID
            /\ \E r \in Reqs :
                 /\ req[r].op = "terminate" /\ req[r].pc = "term_call"
                 /\ req'[r].nTerm = 1
     /\ \A r \in Reqs :
          /\ req'[r].nCreate > 0 =>
               (req'[r].op = "start" /\ variant = "pod" /\ template)
          /\ req'[r].nTerm > 0 => req'[r].op = "terminate"]_vars

\* A Start of the pod variant has created a second pod and stored its
\* identifier.
C17_Witness ==
  \E r \in Reqs :
    /\ variant = "pod" /\ template
    /\ req[r].op = "start" /\ req[r].nCreate = 1
    /\ podsMade = 2 /\ POD_ID = 2 /\ raw[2] # Absent

\* The job description of request r is in the job bucket.
Persisted(r) == \E b \in jobBlobs : b[1] = req[r].job_id

\* C18: every step of a /render request moves it to the next hand-off step
\* or ends it; the metadata push begins with the job description stored, the
\* start call is issued only after the metadata write was applied and its
\* operation ended without error, polling begins only after the start call
\* returned, and a request that fails while storing or pushing ends with no
\* start call issued and without polling.
C18_HandOffOrdered ==
  [][\A r \in Reqs :
       (req[r].op = "render" /\ req[r].pc # "done" /\ req'[r] # req[r]) =>
         /\ <<req[r].pc, req'[r].pc>> \in
              {<<"upload", "push_get">>, <<"push_get", "push_set">>,
               <<"push_set", "push_wait">>, <<"push_wait", "start">>,
               <<"start", "poll">>, <<"poll", "collect">>}
              \cup {<<pc, "done">> : pc \in {"upload", "push_get", "push_set",
                                            "push_wait", "start", "collect"}}
         /\ req'[r].pc = "push_get" => Persisted(r)'
         /\ (req[r].pc = "push_set" /\ metadata' # metadata) => Persisted(r)
         /\ req'[r].pc = "start" => (req[r].pushed /\ req'[r].ans = "ok")
         /\ req'[r].nStart # req[r].nStart =>
              /\ req[r].pc = "start" /\ req[r].nStart = 0
              /\ req[r].pushed /\ Persisted(r)
         /\ req'[r].pc = "poll" => (req'[r].nStart = 1 /\ req'[r].ans = "ok")
         /\ (req[r].pc \in {"upload", "push_get", "push_set", "push_wait"}
             /\ req'[r].pc = "done") =>
              (req'[r].res = 500 /\ req'[r].nStart = 0)]_vars

\* One /render is polling after its hand-off; another has ended on a failed
\* metadata push with its job description stored and no start call.
C18_Witness ==
  \E r1, r2 \in Reqs :
    /\ req[r1].op = "render" /\ req[r1].pc = "poll"
    /\ Persisted(r1) /\ req[r1].pushed /\ req[r1].nStart = 1
    /\ req[r2].op = "render" /\ req[r2].pc = "done" /\ req[r2].res = 500
    /\ Persisted(r2) /\ req[r2].nMeta = 1 /\ req[r2].nStart = 0

\* C19: a Start that has issued the provider start call has pushed the boot
\* configuration with a metadata update before it.
C19_PushBeforeStart ==
  \A r \in Reqs :
    (req[r].op = "start" /\ req[r].nStart > 0) => req[r].nMeta > 0

\* C20: a /render that reached its start step while the instance was RUNNING
\* or PROVISIONING has issued no provider start call.
C20_SubmitStartIdempotent ==
  \A r \in Reqs :
    (req[r].op = "render" /\ req[r].obs \in {"RUNNING", "PROVISIONING"}) =>
      req[r].nStart = 0

\* C21: the metadata write of a /render leaves the instance with exactly the
\* items of that request; when push_metadata returns and nothing has been
\* written since, the metadata are exactly those items, no item of before
\* among them; it returns only when the operation ended without error, and
\* an error of the operation ends the request with a failure.
C21_PushReplacesAll ==
  [][\A r \in Reqs :
       (req[r].op = "render" /\ req'[r] # req[r]) =>
         /\ (req[r].pc = "push_set" /\ req'[r].pushed) =>
              metadata' = RenderItems(req[r].job_id)
         /\ (req[r].pc = "push_wait" /\ req'[r].pc = "start") =>
              /\ req'[r].ans = "ok"
              /\ fingerprint = req[r].fp + 1 =>
                   /\ metadata = RenderItems(req[r].job_id)
                   /\ OperatorItem \notin metadata
         /\ (req[r].pc = "push_wait" /\ req'[r].pc # "start") =>
              /\ req'[r].pc = "done" /\ req'[r].res = 500
              /\ req'[r].ans \in CallFaults \ {"ok"}]_vars

\* push_metadata has returned for the second job: the metadata are the items
\* of that job, the items of the first job and the operator's item are gone.
C21_Witness ==
  \E r \in Reqs :
    /\ req[r].op = "render" /\ req[r].pc = "start"
    /\ req[r].job_id = 2 /\ req[r].fp = 1 /\ fingerprint = 2
    /\ metadata = RenderItems(2)
    /\ <<"job_workflow", 1>> \notin metadata
    /\ OperatorItem \notin metadata

\* C22: a /render that has left its wait, and so one that answers with
\* success, has the completion marker of its own job in the output store;
\* the marker of another job does not release it.
C22_OwnMarkerReleases ==
  \A r \in Reqs :
    (/\ req[r].op = "render"
     /\ \/ req[r].pc = "collect"
        \/ req[r].pc = "done" /\ req[r].res = 200)
    => <<req[r].job_id, DoneFlag>> \in outBlobs

\* One /render has answered with success after its marker appeared while the
\* other still waits: the marker of the first job exists, its own does not.
C22_Witness ==
  \E r, q \in Reqs :
    /\ req[r].op = "render" /\ req[r].pc = "done" /\ req[r].res = 200
    /\ <<req[r].job_id, DoneFlag>> \in outBlobs
    /\ req[q].op = "render" /\ req[q].pc = "poll"
    /\ req[q].job_id # req[r].job_id
    /\ <<req[q].job_id, DoneFlag>> \notin outBlobs

\* A step of a /render that is under way: the thread serving it is scheduled.
RenderStep(r) == req[r].op = "render" /\ render(r)

\* The dispatcher with every serving thread scheduled again and again.
SpecDispatchFair ==
  /\ SpecDispatch
  /\ \A r \in Reqs : WF_vars(RenderStep(r))

C24_ClockWrittenByStartAndKeepAlive ==
  [][/\ last_activity' # last_activity =>
          \E r \in Reqs :
            /\ req[r].op \in {"start", "keepalive"} /\ req[r].pc = "touch_w"
            /\ req'[r].pc # "touch_w"
            /\ last_activity' = req[r].t
     /\ \A r \in Reqs :
          /\ (req[r].pc = "idle" /\ req'[r].op = "start") =>
               req'[r].pc = "touch_r"
          /\ (req[r].op = "start" /\ req[r].pc = "touch_r"
              /\ req'[r] # req[r]) =>
               (req'[r].pc = "touch_w" /\ req'[r].t = now)
          /\ (req[r].op = "start" /\ req[r].pc = "touch_w"
              /\ req'[r] # req[r]) =>
               (last_activity' = req[r].t /\ req'[r].pc # "done"
                /\ NoCalls(req'[r]))
          /\ (req[r].op \in {"stop", "status", "activity", "terminate"}
              /\ req'[r] # req[r]) =>
               UNCHANGED last_activity]_vars

\* A Start has failed at the provider and the ActivityClock holds the time
\* of that Start, later than the initial one, while a Stop is under way.
C24_Witness ==
  \E r, q \in Reqs :
    /\ req[r].op = "start" /\ req[r].pc = "done" /\ req[r].res \in {500, 503}
    /\ last_activity = now /\ now > 0
    /\ req[q].op = "stop" /\ req[q].pc = "done"

\* C25: the ActivityClock never goes back, whatever the interleaving of the
\* Start and KeepAlive requests that read the time and store it.
C25_ClockMonotonic ==
  [][last_activity' >= last_activity]_vars

\* C26: the Starts of the pod variant create at most one pod: no two
\* requests have each had a create-pod call accepted for two different pods
\* that the provider has at the same time.
C26_OnePodCreated ==
  \A r, q \in Reqs :
    (/\ r # q
     /\ req[r].op = "start" /\ req[r].nCreate = 1
     /\ req[q].op = "start" /\ req[q].nCreate = 1
     /\ raw[req[r].ret] # Absent /\ raw[req[q].ret] # Absent)
    => req[r].ret = req[q].ret

====
